---- MODULE Spec2Model ----
(***************************************************************************)
(* Model of src/chat.py: the chat Lambda (handler and its helpers), the    *)
(* topic extraction get_question_topics and the retrieval wrapper          *)
(* retrive_documents.  One behaviour is one call of one of the three       *)
(* functions; the bedrock clients are the environment and answer each call *)
(* with an exception or a response chosen nondeterministically.            *)
(*                                                                         *)
(* Numbers are fixed-point tenths: 0.1 is 1, 1 is 10, 1000 is 10000.       *)
(***************************************************************************)
EXTENDS Integers, Sequences, FiniteSets, TLC

VARIABLES
    entry,                \* the function called: handler, get_question_topics, retrive_documents
    event,                \* handler's event argument
    question_arg,         \* get_question_topics' question argument
    model_id_arg,         \* get_question_topics' model_id argument
    pc,                   \* position of the call
    body,                 \* handler: the parsed body
    request_data,         \* handler: the tuple validate_request returned
    invoke_configuration, \* the configuration passed to the backend
    response,             \* what the backend returned
    output,               \* handler: the joined text
    topics,               \* get_question_topics: the list returned
    result,               \* what the call returned or raised
    invoke_calls,         \* number of bedrock_runtime.invoke_model calls
    retrieve_calls,       \* number of client.retrieve calls
    backend_exc,          \* the exception the backend raised, "" when none
    steps                 \* the steps executed so far, in order

vars == <<entry, event, question_arg, model_id_arg, pc, body, request_data,
          invoke_configuration, response, output, topics, result,
          invoke_calls, retrieve_calls, backend_exc, steps>>

(***************************************************************************)
(* Bounds of the model.                                                    *)
(***************************************************************************)
MaxBlocks == 2    \* content blocks in a backend response
MaxTopics == 2    \* child elements of the root element of a topic reply

(***************************************************************************)
(* Python values: str, number (tenths), bool and None.                     *)
(***************************************************************************)
Str(s) == [t |-> "str", n |-> 0, s |-> s]
Num(n) == [t |-> "num", n |-> n, s |-> ""]
Bool(b) == [t |-> "bool", n |-> IF b THEN 1 ELSE 0, s |-> ""]
None == [t |-> "none", n |-> 0, s |-> ""]

\* bool(v): the truth value Python gives v
Truthy(v) ==
    CASE v.t = "str" -> v.s # ""
      [] v.t = "num" -> v.n # 0
      [] v.t = "bool" -> v.n # 0
      [] OTHER -> FALSE

\* The integer literals among the strings the model feeds to int().
IntLiterals == [s \in {"7"} |-> 70]

\* int(v): truncation toward zero for a number, ValueError for a string that
\* is no integer literal, TypeError for None.
PyInt(v) ==
    CASE v.t = "num" ->
            [ok |-> TRUE, exc |-> "",
             val |-> IF v.n >= 0 THEN Num((v.n \div 10) * 10)
                                 ELSE Num(0 - (((0 - v.n) \div 10) * 10))]
      [] v.t = "bool" -> [ok |-> TRUE, exc |-> "", val |-> Num(v.n * 10)]
      [] v.t = "str" ->
            IF v.s \in DOMAIN IntLiterals
            THEN [ok |-> TRUE, exc |-> "", val |-> Num(IntLiterals[v.s])]
            ELSE [ok |-> FALSE, exc |-> "ValueError", val |-> None]
      [] OTHER -> [ok |-> FALSE, exc |-> "TypeError", val |-> None]

VALID_MODEL_IDS ==
    << "anthropic.claude-3-sonnet-20240229-v1:0",
       "anthropic.claude-3-haiku-20240307-v1:0" >>

\* dict.get(key) and dict.get(key, default) on a dict modelled as a function
Get(d, key) == IF key \in DOMAIN d THEN d[key] ELSE None
GetDefault(d, key, default) == IF key \in DOMAIN d THEN d[key] ELSE default

\* sep.join(seq) for a sequence of strings
RECURSIVE Join(_, _)
Join(sep, seq) ==
    IF Len(seq) = 0 THEN ""
    ELSE IF Len(seq) = 1 THEN seq[1]
    ELSE seq[1] \o sep \o Join(sep, Tail(seq))

(***************************************************************************)
(* Results of a call: a returned API response or an uncaught exception.    *)
(***************************************************************************)
NoResult == [kind |-> "none", statusCode |-> 0, key |-> "", value |-> "",
             headers |-> {}, exc |-> ""]
ApiError(code, msg) == [kind |-> "return", statusCode |-> code, key |-> "error",
                        value |-> msg, headers |-> {}, exc |-> ""]
Raised(e) == [kind |-> "raise", statusCode |-> 0, key |-> "", value |-> "",
              headers |-> {}, exc |-> e]

SERVER_ERROR == "Server side error: please check function logs"

(***************************************************************************)
(* Inputs: the event handler is called with.                               *)
(***************************************************************************)
EmptyDict == [k \in {} |-> None]

\* A request body as json.loads sees it: None (the event carries "body":
\* null), text that is not JSON, or text that is JSON of some type; fields
\* holds the members when the JSON is an object.
RawBody(k, json, fields) == [k |-> k, json |-> json, fields |-> fields]

QuestionInputs == {Str(""), Num(0), None, Bool(FALSE), Str("Hi")}
ModelIdInputs == {Str(""), Str(VALID_MODEL_IDS[1]), Str(VALID_MODEL_IDS[2]), Str("gpt-4")}
PromptInputs == {Str("Responda em uma frase.")}
SamplingInputs == {Num(5), Num(20), Str("abc")}

\* Marks a key the request object does not carry.
Absent == [t |-> "absent", n |-> 0, s |-> ""]

RequestKeys == {"question", "modelId", "prompt", "temperature", "top_k", "top_p", "max_tokens"}

\* The dict holding the keys of choice that are not Absent.
DictOf(choice) ==
    [key \in {k \in DOMAIN choice : choice[k] # Absent} |-> choice[key]]

RequestObjects ==
    {DictOf(c) : c \in [question : QuestionInputs \cup {Absent},
                        modelId : ModelIdInputs \cup {Absent},
                        prompt : PromptInputs \cup {Absent},
                        temperature : SamplingInputs \cup {Absent},
                        top_k : SamplingInputs \cup {Absent},
                        top_p : SamplingInputs \cup {Absent},
                        max_tokens : SamplingInputs \cup {Absent}]}

RawBodies ==
    {RawBody("none", "", EmptyDict), RawBody("text", "invalid", EmptyDict),
     RawBody("text", "null", EmptyDict), RawBody("text", "array", EmptyDict)}
    \cup {RawBody("text", "object", f) : f \in RequestObjects}

Events == {[hasBody |-> FALSE, raw |-> RawBody("none", "", EmptyDict)]}
          \cup {[hasBody |-> TRUE, raw |-> r] : r \in RawBodies}

(***************************************************************************)
(* parse_event_body and validate_request.                                  *)
(***************************************************************************)
\* json.loads(raw): TypeError for None, JSONDecodeError for text that is not
\* JSON, else the value.
json_loads(raw) ==
    IF raw.k = "none" THEN [ok |-> FALSE, exc |-> "TypeError", val |-> raw]
    ELSE IF raw.json = "invalid" THEN [ok |-> FALSE, exc |-> "JSONDecodeError", val |-> raw]
    ELSE [ok |-> TRUE, exc |-> "", val |-> raw]

\* event.get("body", "{}")
EventBody(ev) == IF ev.hasBody THEN ev.raw ELSE RawBody("text", "object", EmptyDict)

\* Returns (body, error); exc names an exception the function lets through.
parse_event_body(ev) ==
    LET r == json_loads(EventBody(ev)) IN
    IF r.ok THEN [body |-> r.val, error |-> NoResult, exc |-> ""]
    ELSE IF r.exc = "JSONDecodeError"
         THEN [body |-> r.val, error |-> ApiError(400, "Invalid JSON in request body"), exc |-> ""]
         ELSE [body |-> r.val, error |-> NoResult, exc |-> r.exc]

required_fields == <<"question", "modelId">>

\* Variant of missing_fields that stops at the first missing field.
missing_fields_first(fields, d) ==
    LET miss == {i \in 1..Len(fields) : ~Truthy(Get(d, fields[i]))}
    IN  IF miss = {} THEN <<>>
        ELSE <<fields[CHOOSE i \in miss : \A j \in miss : i <= j]>>

\* [field for field in fields if not d.get(field)]
RECURSIVE missing_fields(_, _)
missing_fields(fields, d) ==
    IF Len(fields) = 0 THEN <<>>
    ELSE (IF Truthy(Get(d, Head(fields))) THEN <<>> ELSE <<Head(fields)>>)
         \o missing_fields(Tail(fields), d)

\* Variant of InValidModelIds that accepts every string.
InValidModelIds_any_string(v) == v.t = "str"

\* model_id in VALID_MODEL_IDS
InValidModelIds(v) == v.t = "str" /\ \E i \in 1..Len(VALID_MODEL_IDS) : VALID_MODEL_IDS[i] = v.s

DefaultTemperature == 1
DefaultTopK == 10
DefaultTopP == 1
DefaultMaxTokens == 10000

NoRequest == [question |-> None, model_id |-> None, prompt |-> None, top_k |-> None,
              top_p |-> None, max_tokens |-> None, temperature |-> None]

\* Variant of request_values without the defaults of the sampling fields.
request_values_no_defaults(d) ==
    [question |-> Get(d, "question"),
     model_id |-> Get(d, "modelId"),
     prompt |-> Get(d, "prompt"),
     top_k |-> Get(d, "top_k"),
     top_p |-> Get(d, "top_p"),
     max_tokens |-> Get(d, "max_tokens"),
     temperature |-> Get(d, "temperature")]

\* Lines 35-41: the values read from the body, the tuple of line 59
request_values(d) ==
    [question |-> Get(d, "question"),
     model_id |-> Get(d, "modelId"),
     prompt |-> Get(d, "prompt"),
     top_k |-> GetDefault(d, "top_k", Num(DefaultTopK)),
     top_p |-> GetDefault(d, "top_p", Num(DefaultTopP)),
     max_tokens |-> GetDefault(d, "max_tokens", Num(DefaultMaxTokens)),
     temperature |-> GetDefault(d, "temperature", Num(DefaultTemperature))]

\* Returns (request_data, error); exc names an exception let through
\* (body.get on a value that is no dict).
validate_request(b) ==
    IF b.json # "object"
    THEN [data |-> NoRequest, error |-> NoResult, exc |-> "AttributeError"]
    ELSE LET d == b.fields
             missing == missing_fields(required_fields, d)
         IN  IF Len(missing) > 0
             THEN [data |-> NoRequest, exc |-> "",
                   error |-> ApiError(400, "Missing required fields: " \o Join(", ", missing))]
             ELSE IF ~InValidModelIds(Get(d, "modelId"))
             THEN [data |-> NoRequest, exc |-> "",
                   error |-> ApiError(400, "Invalid modelId in request body")]
             ELSE [data |-> request_values(d), error |-> NoResult, exc |-> ""]

(***************************************************************************)
(* create_invoke_configuration.                                            *)
(***************************************************************************)
\* What an f-string puts for v; the requests of the model carry a str or
\* nothing (None) as question and prompt.
Format(v) ==
    CASE v.t = "str" -> v.s
      [] v.t = "none" -> "None"
      [] v.t = "bool" -> IF v.n = 1 THEN "True" ELSE "False"
      [] OTHER -> ToString(v.n)

NoConfiguration == [built |-> FALSE]

\* The first int() that fails, in the order the dict literal evaluates them:
\* max_tokens, temperature, top_p, top_k.
RECURSIVE FirstFailure(_)
FirstFailure(values) ==
    IF Len(values) = 0 THEN ""
    ELSE IF ~PyInt(Head(values)).ok THEN PyInt(Head(values)).exc
    ELSE FirstFailure(Tail(values))

create_invoke_configuration(question, model_id, top_k, top_p, max_tokens, temperature, custom_prompt) ==
    LET prompt == "\n    <pergunta>\n        " \o Format(question)
                  \o "\n    </pergunta>\n\n    " \o Format(custom_prompt) \o "\n    "
        failure == FirstFailure(<<max_tokens, temperature, top_p, top_k>>)
    IN  IF failure # ""
        THEN [ok |-> FALSE, exc |-> failure, conf |-> NoConfiguration]
        ELSE [ok |-> TRUE, exc |-> "",
              conf |-> [built |-> TRUE,
                        body |-> [anthropic_version |-> "bedrock-2023-05-31",
                                  max_tokens |-> PyInt(max_tokens).val,
                                  messages |-> <<[role |-> "user", content |-> prompt]>>,
                                  temperature |-> PyInt(temperature).val,
                                  top_p |-> PyInt(top_p).val,
                                  top_k |-> PyInt(top_k).val],
                        modelId |-> model_id,
                        accept |-> "application/json",
                        contentType |-> "application/json"]]

(***************************************************************************)
(* The backend: what invoke_model and retrieve may do.                     *)
(***************************************************************************)
BackendExceptions == {"ClientError", "ReadTimeoutError"}

\* Sequences over S of length 0..n
SeqsUpTo(S, n) == UNION {[1..k -> S] : k \in 0..n}

\* A content block: a dict with a "text" or without one.
Block(hasText, text) == [hasText |-> hasText, text |-> text]
NoText == Block(FALSE, "")

\* The body of a backend response: bytes that do not decode, text that is
\* not JSON, JSON that is no object, or an object with or without "content".
ResponseBody(k, hasContent, content) == [k |-> k, hasContent |-> hasContent, content |-> content]

NoResponse == [kind |-> "none", exc |-> "", raw |-> ResponseBody("", FALSE, <<>>)]
BackendRaises(e) == [kind |-> "exception", exc |-> e, raw |-> ResponseBody("", FALSE, <<>>)]
BackendReturns(raw) == [kind |-> "response", exc |-> "", raw |-> raw]

BrokenBodies == {ResponseBody("undecodable", FALSE, <<>>), ResponseBody("invalid", FALSE, <<>>),
                 ResponseBody("array", FALSE, <<>>), ResponseBody("object", FALSE, <<>>)}

BackendOutcomes(texts) ==
    {BackendRaises(e) : e \in BackendExceptions}
    \cup {BackendReturns(raw) : raw \in BrokenBodies}
    \cup {BackendReturns(ResponseBody("object", TRUE, c)) :
            c \in SeqsUpTo({Block(TRUE, t) : t \in texts} \cup {NoText}, MaxBlocks)}

AnswerTexts == {"Photosynthesis is...", "It needs light."}

\* json.loads(response.get("body").read().decode("utf-8"))
decode_body(raw) ==
    CASE raw.k = "undecodable" -> [ok |-> FALSE, exc |-> "UnicodeDecodeError"]
      [] raw.k = "invalid" -> [ok |-> FALSE, exc |-> "JSONDecodeError"]
      [] OTHER -> [ok |-> TRUE, exc |-> ""]

\* response_body.get("content", []) and the loop appending content.get("text", {})
collect_texts(raw) ==
    IF raw.k # "object" THEN [ok |-> FALSE, exc |-> "AttributeError", texts |-> <<>>]
    ELSE [ok |-> TRUE, exc |-> "", texts |-> IF raw.hasContent THEN raw.content ELSE <<>>]

\* Variant of join_texts that joins without the space.
join_texts_no_space(texts) ==
    IF \E i \in 1..Len(texts) : ~texts[i].hasText
    THEN [ok |-> FALSE, exc |-> "TypeError", out |-> ""]
    ELSE [ok |-> TRUE, exc |-> "", out |-> Join("", [i \in 1..Len(texts) |-> texts[i].text])]

\* " ".join(texts): TypeError when an entry is the {} of a block without text
join_texts(texts) ==
    IF \E i \in 1..Len(texts) : ~texts[i].hasText
    THEN [ok |-> FALSE, exc |-> "TypeError", out |-> ""]
    ELSE [ok |-> TRUE, exc |-> "", out |-> Join(" ", [i \in 1..Len(texts) |-> texts[i].text])]

CORS_HEADERS == {<<"Access-Control-Allow-Origin", "*">>}

(***************************************************************************)
(* handler, one action per step.                                           *)
(***************************************************************************)
NoBody == RawBody("", "", EmptyDict)

\* Lines 194-196: body, error = parse_event_body(event)
HandlerParseEventBody ==
    /\ entry = "handler" /\ pc = "INIT"
    /\ LET r == parse_event_body(event) IN
       /\ steps' = Append(steps, "parse_event_body")
       /\ IF r.exc # ""
          THEN pc' = "CRASHED" /\ result' = Raised(r.exc) /\ body' = body
          ELSE IF r.error.kind # "none"
          THEN pc' = "FAILED" /\ result' = r.error /\ body' = body
          ELSE pc' = "BODY_PARSED" /\ result' = result /\ body' = r.body
    /\ UNCHANGED <<entry, event, question_arg, model_id_arg, request_data,
                   invoke_configuration, response, output, topics,
                   invoke_calls, retrieve_calls, backend_exc>>

\* Lines 198-202: request_data, error = validate_request(body)
HandlerValidateRequest ==
    /\ entry = "handler" /\ pc = "BODY_PARSED"
    /\ LET r == validate_request(body) IN
       /\ steps' = Append(steps, "validate_request")
       /\ IF r.exc # ""
          THEN pc' = "CRASHED" /\ result' = Raised(r.exc) /\ request_data' = request_data
          ELSE IF r.error.kind # "none"
          THEN pc' = "FAILED" /\ result' = r.error /\ request_data' = request_data
          ELSE pc' = "VALIDATED" /\ result' = result /\ request_data' = r.data
    /\ UNCHANGED <<entry, event, question_arg, model_id_arg, body,
                   invoke_configuration, response, output, topics,
                   invoke_calls, retrieve_calls, backend_exc>>

\* Lines 208-210: invoke_configuration = create_invoke_configuration(...)
HandlerCreateInvokeConfiguration ==
    /\ entry = "handler" /\ pc = "VALIDATED"
    /\ LET d == request_data
           r == create_invoke_configuration(d.question, d.model_id, d.top_k, d.top_p,
                                            d.max_tokens, d.temperature, d.prompt)
       IN
       /\ steps' = Append(steps, "create_invoke_configuration")
       /\ IF r.ok
          THEN pc' = "PROMPT_BUILT" /\ invoke_configuration' = r.conf /\ result' = result
          ELSE pc' = "CRASHED" /\ result' = Raised(r.exc)
               /\ invoke_configuration' = invoke_configuration
    /\ UNCHANGED <<entry, event, question_arg, model_id_arg, body, request_data,
                   response, output, topics, invoke_calls, retrieve_calls, backend_exc>>

\* Variant of generate_response that puts the exception into the message.
generate_response_leaking(outcome) ==
    IF outcome.kind = "exception"
    THEN [response |-> NoResponse, error |-> ApiError(500, "Server side error: " \o outcome.exc)]
    ELSE [response |-> outcome, error |-> NoResult]

\* Variant of generate_response that swallows the exception.
generate_response_swallowing(outcome) ==
    IF outcome.kind = "exception"
    THEN [response |-> NoResponse, error |-> NoResult]
    ELSE [response |-> outcome, error |-> NoResult]

\* generate_response(input_configuration): the call of invoke_model and the
\* except clause that turns any exception into the 500 error.
generate_response(outcome) ==
    IF outcome.kind = "exception"
    THEN [response |-> NoResponse, error |-> ApiError(500, SERVER_ERROR)]
    ELSE [response |-> outcome, error |-> NoResult]

\* Lines 212-214: response, error = generate_response(invoke_configuration)
HandlerGenerateResponse ==
    /\ entry = "handler" /\ pc = "PROMPT_BUILT"
    /\ \E outcome \in BackendOutcomes(AnswerTexts) :
          LET r == generate_response(outcome) IN
          /\ invoke_calls' = invoke_calls + 1
          /\ backend_exc' = outcome.exc
          /\ steps' = Append(steps, "generate_response")
          /\ IF r.error.kind # "none"
             THEN pc' = "FAILED" /\ result' = r.error /\ response' = response
             ELSE pc' = "INVOKED" /\ result' = result /\ response' = r.response
    /\ UNCHANGED <<entry, event, question_arg, model_id_arg, body, request_data,
                   invoke_configuration, output, topics, retrieve_calls>>

\* Lines 216-222: decode the response body and join the texts of its blocks
HandlerParseResponse ==
    /\ entry = "handler" /\ pc = "INVOKED"
    /\ steps' = Append(steps, "parse_response")
    /\ LET d == decode_body(response.raw)
           c == collect_texts(response.raw)
           j == join_texts(c.texts)
       IN  IF ~d.ok THEN pc' = "CRASHED" /\ result' = Raised(d.exc) /\ output' = output
           ELSE IF ~c.ok THEN pc' = "CRASHED" /\ result' = Raised(c.exc) /\ output' = output
           ELSE IF ~j.ok THEN pc' = "CRASHED" /\ result' = Raised(j.exc) /\ output' = output
           ELSE pc' = "PARSED" /\ result' = result /\ output' = j.out
    /\ UNCHANGED <<entry, event, question_arg, model_id_arg, body, request_data,
                   invoke_configuration, response, topics, invoke_calls,
                   retrieve_calls, backend_exc>>

\* Lines 226-234: return the 200 response
HandlerReturn ==
    /\ entry = "handler" /\ pc = "PARSED"
    /\ steps' = Append(steps, "return")
    /\ pc' = "DONE"
    /\ result' = [kind |-> "return", statusCode |-> 200, key |-> "response",
                  value |-> output, headers |-> CORS_HEADERS, exc |-> ""]
    /\ UNCHANGED <<entry, event, question_arg, model_id_arg, body, request_data,
                   invoke_configuration, response, output, topics, invoke_calls,
                   retrieve_calls, backend_exc>>

(***************************************************************************)
(* The markup of a topic reply, as a sequence of tokens, and ElementTree.   *)
(***************************************************************************)
Open(tag) == [k |-> "open", v |-> tag]
Close(tag) == [k |-> "close", v |-> tag]
Text(s) == [k |-> "text", v |-> s]

Elem(tag, text, children) == [tag |-> tag, text |-> text, children |-> children]

Whitespace == {" ", "\n    "}

NoElem == Elem("", None, <<>>)
ParseError == [ok |-> FALSE, exc |-> "ParseError", root |-> NoElem]

\* Character data inside the innermost open element: it extends the element's
\* text as long as the element has no child, and is the tail of a child after.
AddText(el, s) ==
    IF Len(el.children) > 0 THEN el
    ELSE [el EXCEPT !.text = IF el.text.t = "none" THEN Str(s) ELSE Str(el.text.s \o s)]

\* Replace the last entry of a non-empty sequence
SetLast(seq, x) == [seq EXCEPT ![Len(seq)] = x]
Last(seq) == seq[Len(seq)]

\* ET.fromstring(text): stack holds the elements still open, root the
\* document element once it is closed.  Not well-formed: a closing tag that
\* does not match, character data or a second element outside the document
\* element, an element left open, no element at all.
RECURSIVE parse_tokens(_, _, _, _)
parse_tokens(tokens, stack, done, root) ==
    IF Len(tokens) = 0
    THEN IF Len(stack) = 0 /\ done THEN [ok |-> TRUE, exc |-> "", root |-> root]
         ELSE ParseError
    ELSE LET tok == Head(tokens) rest == Tail(tokens) IN
         CASE tok.k = "open" ->
                IF done THEN ParseError
                ELSE parse_tokens(rest, Append(stack, Elem(tok.v, None, <<>>)), done, root)
           [] tok.k = "text" ->
                IF Len(stack) = 0
                THEN IF tok.v \in Whitespace THEN parse_tokens(rest, stack, done, root)
                     ELSE ParseError
                ELSE parse_tokens(rest, SetLast(stack, AddText(Last(stack), tok.v)), done, root)
           [] OTHER ->
                IF Len(stack) = 0 \/ Last(stack).tag # tok.v THEN ParseError
                ELSE IF Len(stack) = 1
                THEN parse_tokens(rest, <<>>, TRUE, Last(stack))
                ELSE LET parent == stack[Len(stack) - 1]
                         grown == [parent EXCEPT !.children = Append(@, Last(stack))]
                     IN  parse_tokens(rest, Append(SubSeq(stack, 1, Len(stack) - 2), grown),
                                      done, root)

\* ET.fromstring of the first text: TypeError when it is the {} of a block
\* without text
fromstring(block) ==
    IF ~block.hasText THEN [ok |-> FALSE, exc |-> "TypeError", root |-> NoElem]
    ELSE parse_tokens(block.text, <<>>, FALSE, NoElem)

\* Variant of findall_text that leaves out the entries without text.
findall_text_skip_empty(children, tag) ==
    LET found == SelectSeq(children, LAMBDA c : c.tag = tag /\ c.text.t # "none")
    IN  [i \in 1..Len(found) |-> found[i].text]

\* [topic.text for topic in root.findall(tag)]: the children of root named tag
RECURSIVE findall_text(_, _)
findall_text(children, tag) ==
    IF Len(children) = 0 THEN <<>>
    ELSE (IF Head(children).tag = tag THEN <<Head(children).text>> ELSE <<>>)
         \o findall_text(Tail(children), tag)

(***************************************************************************)
(* The replies the model may give to the topic prompt.                      *)
(***************************************************************************)
\* The markup of an element; pretty puts whitespace in front of each child.
RECURSIVE Render(_, _)
RECURSIVE RenderAll(_, _)
Render(el, pretty) ==
    <<Open(el.tag)>>
    \o (IF el.text.t = "none" THEN <<>> ELSE <<Text(el.text.s)>>)
    \o RenderAll(el.children, pretty)
    \o <<Close(el.tag)>>

RenderAll(children, pretty) ==
    IF Len(children) = 0 THEN <<>>
    ELSE (IF pretty THEN <<Text("\n    ")>> ELSE <<>>)
         \o Render(Head(children), pretty) \o RenderAll(Tail(children), pretty)

TopicChildren ==
    {Elem("topico", Str("clima"), <<>>), Elem("topico", Str("chuva"), <<>>),
     Elem("topico", None, <<>>), Elem("item", Str("clima"), <<>>),
     Elem("grupo", None, <<Elem("topico", Str("vento"), <<>>)>>)}

ListaTrees == {Elem("lista", None, c) : c \in SeqsUpTo(TopicChildren, MaxTopics)}
ReplyTrees == ListaTrees \cup {Elem("resposta", None, c) : c \in SeqsUpTo(TopicChildren, MaxTopics)}

WellFormedReplies == {Render(tree, pretty) : tree \in ReplyTrees, pretty \in BOOLEAN}

DropToken(doc, i) == SubSeq(doc, 1, i - 1) \o SubSeq(doc, i + 1, Len(doc))

\* Well-formed replies, replies with one token lost, replies with prose or
\* whitespace in front.
ReplyTexts ==
    WellFormedReplies
    \cup UNION {{DropToken(Render(tree, FALSE), i) : i \in 1..Len(Render(tree, FALSE))} :
                  tree \in ReplyTrees}
    \cup {<<Text(t)>> \o Render(tree, FALSE) :
            tree \in ReplyTrees, t \in {"Aqui esta a lista:", " "}}

TopicOutcomes ==
    {BackendRaises(e) : e \in BackendExceptions}
    \cup {BackendReturns(raw) : raw \in BrokenBodies}
    \cup {BackendReturns(ResponseBody("object", TRUE, <<>>))}
    \cup {BackendReturns(ResponseBody("object", TRUE, <<first>> \o rest)) :
            first \in {Block(TRUE, t) : t \in ReplyTexts} \cup {NoText},
            rest \in SeqsUpTo({Block(TRUE, <<Text("fim")>>)}, MaxBlocks - 1)}

(***************************************************************************)
(* get_question_topics and retrive_documents.                               *)
(***************************************************************************)
TopicQuestions == {"Hi", "clima"}

\* Lines 94-129: the payload of the topic call, with its fixed sampling values
topic_configuration(question, model_id) ==
    [built |-> TRUE,
     body |-> [anthropic_version |-> "bedrock-2023-05-31",
               max_tokens |-> Num(10000),
               messages |-> <<[role |-> "user",
                               content |-> "<pergunta>" \o question \o "<pergunta>"]>>,
               temperature |-> Num(1),
               top_p |-> Num(9),
               top_k |-> Num(5000)],
     modelId |-> Str(model_id),
     accept |-> "application/json",
     contentType |-> "application/json"]

\* Lines 94-131: build the payload and call invoke_model; nothing catches
\* what the call raises.
TopicsInvoke ==
    /\ entry = "get_question_topics" /\ pc = "INIT"
    /\ invoke_configuration' = topic_configuration(question_arg, model_id_arg)
    /\ \E outcome \in TopicOutcomes :
          /\ invoke_calls' = invoke_calls + 1
          /\ backend_exc' = outcome.exc
          /\ IF outcome.kind = "exception"
             THEN pc' = "CRASHED" /\ result' = Raised(outcome.exc) /\ response' = response
             ELSE pc' = "INVOKED" /\ result' = result /\ response' = outcome
    /\ steps' = Append(steps, "invoke_model")
    /\ UNCHANGED <<entry, event, question_arg, model_id_arg, body, request_data,
                   output, topics, retrieve_calls>>

\* Variant of extract_topics that answers a reply it cannot parse with the
\* question alone.
extract_topics_fallback(raw, question) ==
    LET d == decode_body(raw)
        c == collect_texts(raw)
    IN  IF ~d.ok THEN [ok |-> FALSE, exc |-> d.exc, topics |-> <<>>]
        ELSE IF ~c.ok THEN [ok |-> FALSE, exc |-> c.exc, topics |-> <<>>]
        ELSE IF Len(c.texts) = 0 THEN [ok |-> FALSE, exc |-> "IndexError", topics |-> <<>>]
        ELSE LET x == fromstring(c.texts[1]) IN
             IF ~x.ok THEN [ok |-> TRUE, exc |-> "", topics |-> <<Str(question)>>]
             ELSE [ok |-> TRUE, exc |-> "",
                   topics |-> Append(findall_text(x.root.children, "topico"), Str(question))]

\* Lines 133-150 as a function of the response body and the question
extract_topics(raw, question) ==
    LET d == decode_body(raw)
        c == collect_texts(raw)
    IN  IF ~d.ok THEN [ok |-> FALSE, exc |-> d.exc, topics |-> <<>>]
        ELSE IF ~c.ok THEN [ok |-> FALSE, exc |-> c.exc, topics |-> <<>>]
        ELSE IF Len(c.texts) = 0 THEN [ok |-> FALSE, exc |-> "IndexError", topics |-> <<>>]
        ELSE LET x == fromstring(c.texts[1]) IN
             IF ~x.ok THEN [ok |-> FALSE, exc |-> x.exc, topics |-> <<>>]
             ELSE [ok |-> TRUE, exc |-> "",
                   topics |-> Append(findall_text(x.root.children, "topico"), Str(question))]

\* Lines 133-150: decode the reply, parse its first text and list the topics
TopicsParse ==
    /\ entry = "get_question_topics" /\ pc = "INVOKED"
    /\ LET r == extract_topics(response.raw, question_arg) IN
          IF r.ok
          THEN /\ pc' = "DONE" /\ topics' = r.topics
               /\ result' = [kind |-> "return", statusCode |-> 0, key |-> "topics",
                             value |-> "", headers |-> {}, exc |-> ""]
          ELSE pc' = "CRASHED" /\ result' = Raised(r.exc) /\ topics' = topics
    /\ steps' = Append(steps, "parse_topics")
    /\ UNCHANGED <<entry, event, question_arg, model_id_arg, body, request_data,
                   invoke_configuration, response, output, invoke_calls,
                   retrieve_calls, backend_exc>>

RetrieveQueries == {"clima", "chuva", "vento", "Hi"}
RetrieveConfigurations ==
    {[built |-> TRUE, knowledgeBaseId |-> kb, retrievalQuery |-> [text |-> q]] :
        kb \in {"KB1", "KB2"}, q \in RetrieveQueries}

RetrieveOutcomes ==
    {BackendRaises(e) : e \in BackendExceptions \cup {"ValidationException"}}
    \cup {BackendReturns(ResponseBody("object", TRUE, c)) :
            c \in SeqsUpTo({Block(TRUE, "doc A"), Block(TRUE, "doc B")}, MaxBlocks)}

\* retrive_documents(input_configuration): the call of retrieve and the
\* except clause that turns any exception into the 500 error.
retrive_documents(outcome) ==
    IF outcome.kind = "exception"
    THEN [response |-> NoResponse, error |-> ApiError(500, SERVER_ERROR)]
    ELSE [response |-> outcome, error |-> NoResult]

\* Lines 61-73
RetriveDocuments ==
    /\ entry = "retrive_documents" /\ pc = "INIT"
    /\ \E outcome \in RetrieveOutcomes :
          LET r == retrive_documents(outcome) IN
          /\ retrieve_calls' = retrieve_calls + 1
          /\ backend_exc' = outcome.exc
          /\ response' = r.response
          /\ result' = r.error
          /\ pc' = IF r.error.kind # "none" THEN "FAILED" ELSE "DONE"
    /\ steps' = Append(steps, "retrieve")
    /\ UNCHANGED <<entry, event, question_arg, model_id_arg, body, request_data,
                   invoke_configuration, output, topics, invoke_calls>>

(***************************************************************************)
(* The specification.                                                      *)
(***************************************************************************)
InitCommon ==
    /\ pc = "INIT"
    /\ body = NoBody
    /\ request_data = NoRequest
    /\ response = NoResponse
    /\ output = ""
    /\ topics = <<>>
    /\ result = NoResult
    /\ invoke_calls = 0
    /\ retrieve_calls = 0
    /\ backend_exc = ""
    /\ steps = <<>>

InitHandler ==
    /\ entry = "handler"
    /\ event \in Events
    /\ question_arg = "" /\ model_id_arg = ""
    /\ invoke_configuration = NoConfiguration

NoEvent == [hasBody |-> FALSE, raw |-> NoBody]

InitTopics ==
    /\ entry = "get_question_topics"
    /\ event = NoEvent
    /\ question_arg \in TopicQuestions
    /\ model_id_arg \in {VALID_MODEL_IDS[i] : i \in 1..Len(VALID_MODEL_IDS)}
    /\ invoke_configuration = NoConfiguration

InitRetrieve ==
    /\ entry = "retrive_documents"
    /\ event = NoEvent
    /\ question_arg = "" /\ model_id_arg = ""
    /\ invoke_configuration \in RetrieveConfigurations

Init == InitCommon /\ (InitHandler \/ InitTopics \/ InitRetrieve)

Next ==
    \/ HandlerParseEventBody
    \/ HandlerValidateRequest
    \/ HandlerCreateInvokeConfiguration
    \/ HandlerGenerateResponse
    \/ HandlerParseResponse
    \/ HandlerReturn
    \/ TopicsInvoke
    \/ TopicsParse
    \/ RetriveDocuments

Spec == Init /\ [][Next]_vars

(***************************************************************************)
(* Properties.                                                             *)
(***************************************************************************)
\* The request object of the event, when its body is JSON text of an object
\* (or the event has no body and "{}" stands in).
IsObjectRequest == entry = "handler" /\ EventBody(event).k = "text" /\ EventBody(event).json = "object"
RequestFields == EventBody(event).fields

Falsy == {Str(""), Num(0), None, Bool(FALSE)}
IsMissing(key) == key \notin DOMAIN RequestFields \/ RequestFields[key] \in Falsy

ExpectedMissing ==
    IF IsMissing("question") /\ IsMissing("modelId") THEN "question, modelId"
    ELSE IF IsMissing("question") THEN "question"
    ELSE "modelId"

Ran(step) == \E i \in 1..Len(steps) : steps[i] = step

\* C1: a request object lacking question, modelId or both (absent or falsy)
\* is answered, once validate_request has run, with 400 and "Missing required
\* fields: " followed by all the missing names in the order question, modelId.
C1_MissingFieldsAllReported ==
    (IsObjectRequest /\ (IsMissing("question") \/ IsMissing("modelId")) /\ Ran("validate_request"))
    => /\ pc = "FAILED"
       /\ result = ApiError(400, "Missing required fields: " \o ExpectedMissing)

C1_Witness ==
    /\ IsObjectRequest /\ pc = "FAILED"
    /\ "question" \in DOMAIN RequestFields /\ RequestFields["question"] = Num(0)
    /\ "modelId" \notin DOMAIN RequestFields
    /\ result.value = "Missing required fields: question, modelId"

\* The requests that fail validation: a body that is not JSON, a missing
\* required field, a modelId outside the allow-list.
InvalidJson == entry = "handler" /\ event.hasBody /\ event.raw.k = "text" /\ event.raw.json = "invalid"
MissingRequired == IsObjectRequest /\ (IsMissing("question") \/ IsMissing("modelId"))
ModelIdNotAllowed ==
    /\ IsObjectRequest /\ ~IsMissing("question") /\ ~IsMissing("modelId")
    /\ RequestFields["modelId"] \notin {Str(VALID_MODEL_IDS[1]), Str(VALID_MODEL_IDS[2])}

\* C2: a request that fails validation never reaches a backend: the call
\* counts of invoke_model and retrieve stay 0, it ends with 400, a modelId
\* outside the allow-list with "Invalid modelId in request body"; and a
\* backend call of handler happens only after both parse_event_body and
\* validate_request succeeded.
C2_RejectedBeforeBackend ==
    /\ (InvalidJson \/ MissingRequired \/ ModelIdNotAllowed)
       => /\ invoke_calls = 0 /\ retrieve_calls = 0
          /\ pc \in {"INIT", "BODY_PARSED", "FAILED"}
          /\ pc = "FAILED" => result.kind = "return" /\ result.statusCode = 400
          /\ (ModelIdNotAllowed /\ pc = "FAILED")
             => result = ApiError(400, "Invalid modelId in request body")
          /\ ((InvalidJson /\ Ran("parse_event_body")) \/ Ran("validate_request"))
             => pc = "FAILED"
    /\ (entry = "handler" /\ invoke_calls + retrieve_calls > 0)
       => /\ Ran("parse_event_body") /\ Ran("validate_request")
          /\ request_data # NoRequest
          /\ ~(InvalidJson \/ MissingRequired \/ ModelIdNotAllowed)

C2_Witness ==
    /\ ModelIdNotAllowed /\ pc = "FAILED" /\ invoke_calls = 0
    /\ RequestFields["modelId"] = Str("gpt-4")
    /\ result.value = "Invalid modelId in request body"

\* C3: when invoke_model (in handler) or retrieve (in retrive_documents)
\* raises, the result is 500 with the one fixed message whatever the
\* exception, and handler neither parses a response nor answers 200.
C3_BackendFailureIsGeneric500 ==
    (entry \in {"handler", "retrive_documents"} /\ backend_exc # "")
    => /\ pc = "FAILED"
       /\ result = [kind |-> "return", statusCode |-> 500, key |-> "error",
                    value |-> "Server side error: please check function logs",
                    headers |-> {}, exc |-> ""]
       /\ ~Ran("parse_response") /\ ~Ran("return")
       /\ output = "" /\ response = NoResponse

C3_Witness ==
    /\ entry = "handler" /\ backend_exc = "ReadTimeoutError"
    /\ pc = "FAILED" /\ result.statusCode = 500 /\ invoke_calls = 1

\* The texts of blocks joined by one space, built from the last block back.
RECURSIVE SpaceJoined(_)
SpaceJoined(blocks) ==
    IF Len(blocks) = 1 THEN blocks[1].text
    ELSE SpaceJoined(SubSeq(blocks, 1, Len(blocks) - 1)) \o " " \o blocks[Len(blocks)].text

HasTextBlocks ==
    /\ response.kind = "response" /\ response.raw.k = "object" /\ response.raw.hasContent
    /\ Len(response.raw.content) >= 1
    /\ \A i \in 1..Len(response.raw.content) : response.raw.content[i].hasText

\* C4: when the backend returned content blocks b1..bn (n >= 1) that all
\* carry a text, handler ends with 200, the header
\* Access-Control-Allow-Origin: * and the body {"response": t}, t the texts
\* joined by one space in block order.
C4_SuccessJoinsBlocks ==
    (entry = "handler" /\ HasTextBlocks /\ pc \notin {"INVOKED", "PARSED"})
    => /\ pc = "DONE"
       /\ result = [kind |-> "return", statusCode |-> 200, key |-> "response",
                    value |-> SpaceJoined(response.raw.content),
                    headers |-> {<<"Access-Control-Allow-Origin", "*">>}, exc |-> ""]

C4_Witness ==
    /\ entry = "handler" /\ pc = "DONE" /\ Len(response.raw.content) = 2
    /\ result.statusCode = 200
    /\ result.value = "Photosynthesis is... It needs light."

\* C5: every call of handler ends in a response with statusCode 200, 400 or
\* 500 and never with an uncaught exception.
C5_AlwaysStructuredResponse ==
    entry = "handler"
    => /\ result.kind # "raise"
       /\ pc # "CRASHED"
       /\ pc \in {"DONE", "FAILED"} => result.statusCode \in {200, 400, 500}

\* The reply the topic call got has a first content block with a text.
HasReplyText ==
    /\ entry = "get_question_topics"
    /\ response.kind = "response" /\ response.raw.k = "object" /\ response.raw.hasContent
    /\ Len(response.raw.content) >= 1 /\ response.raw.content[1].hasText
ReplyText == response.raw.content[1].text

\* The texts of the children of tree named topico, in document order.
TopicEntries(tree) ==
    LET entries == SelectSeq(tree.children, LAMBDA c : c.tag = "topico")
    IN  [i \in 1..Len(entries) |-> entries[i].text]

\* Each lista tree with its markup, compact and pretty.
ListaMarkups == {<<tree, Render(tree, pretty)>> : tree \in ListaTrees, pretty \in BOOLEAN}

\* C6: when the first content block of the reply is a well-formed lista
\* element with N topico entries (N >= 0), get_question_topics returns N+1
\* entries: the texts of the entries in document order, then the question.
C6_TopicsThenQuestion ==
    (HasReplyText /\ pc \notin {"INIT", "INVOKED"})
    => \A m \in ListaMarkups :
          ReplyText = m[2]
          => /\ pc = "DONE" /\ result.kind = "return"
             /\ Len(topics) = Len(TopicEntries(m[1])) + 1
             /\ topics = TopicEntries(m[1]) \o <<Str(question_arg)>>

C6_Witness ==
    /\ HasReplyText /\ pc = "DONE"
    /\ ReplyText = <<Open("lista"), Open("topico"), Text("chuva"), Close("topico"),
                     Open("topico"), Text("clima"), Close("topico"), Close("lista")>>
    /\ question_arg = "clima"
    /\ topics = <<Str("chuva"), Str("clima"), Str("clima")>>

\* Well-formedness of a token sequence, by cancelling adjacent pairs of an
\* opening and its closing tag: the tags cancel to nothing, there is exactly
\* one outermost element, and only whitespace lies outside it.
TagsOf(doc) == SelectSeq(doc, LAMBDA tok : tok.k # "text")
DepthAfter(doc, i) ==
    Cardinality({j \in 1..i : doc[j].k = "open"}) - Cardinality({j \in 1..i : doc[j].k = "close"})

RECURSIVE Cancels(_)
Cancels(tags) ==
    IF Len(tags) = 0 THEN TRUE
    ELSE LET pairs == {i \in 1..(Len(tags) - 1) :
                         tags[i].k = "open" /\ tags[i + 1].k = "close" /\ tags[i].v = tags[i + 1].v}
         IN  /\ pairs # {}
             /\ LET i == CHOOSE p \in pairs : \A q \in pairs : p <= q
                IN  Cancels(SubSeq(tags, 1, i - 1) \o SubSeq(tags, i + 2, Len(tags)))

WellFormedMarkup(doc) ==
    /\ Len(TagsOf(doc)) > 0
    /\ Cancels(TagsOf(doc))
    /\ \A i \in 1..Len(doc) :
          (doc[i].k = "text" /\ DepthAfter(doc, i) = 0) => doc[i].v \in {" ", "\n    "}
    /\ \A i \in 1..Len(doc) :
          (doc[i].k = "close" /\ DepthAfter(doc, i) = 0)
          => \A j \in (i + 1)..Len(doc) : doc[j].k = "text"

Provided(key, default) == IF key \in DOMAIN RequestFields THEN RequestFields[key] ELSE default

\* C8: for a request that passes validation, validate_request returns each
\* optional sampling field's value when present and else the default
\* (temperature 0.1, top_k 1, top_p 0.1, max_tokens 1000), and question and
\* modelId unchanged.
C8_DefaultsApplied ==
    (IsObjectRequest /\ ~MissingRequired /\ ~ModelIdNotAllowed /\ Ran("validate_request"))
    => /\ request_data.temperature = Provided("temperature", Num(1))
       /\ request_data.top_k = Provided("top_k", Num(10))
       /\ request_data.top_p = Provided("top_p", Num(1))
       /\ request_data.max_tokens = Provided("max_tokens", Num(10000))
       /\ request_data.question = RequestFields["question"]
       /\ request_data.model_id = RequestFields["modelId"]

C8_Witness ==
    /\ IsObjectRequest /\ pc = "VALIDATED"
    /\ DOMAIN RequestFields = {"question", "modelId", "top_k"}
    /\ request_data.top_k = Num(20) /\ request_data.top_p = Num(1)
    /\ request_data.temperature = Num(1) /\ request_data.max_tokens = Num(10000)

\* C9: the payload built for the model backend carries the sampling
\* parameters of the validated request with their value unchanged.
C9_SamplingVerbatim ==
    (entry = "handler" /\ invoke_configuration.built)
    => /\ invoke_configuration.body.temperature = request_data.temperature
       /\ invoke_configuration.body.top_p = request_data.top_p
       /\ invoke_configuration.body.top_k = request_data.top_k
       /\ invoke_configuration.body.max_tokens = request_data.max_tokens

HandlerOrder ==
    <<"parse_event_body", "validate_request", "create_invoke_configuration",
      "generate_response", "parse_response", "return">>
PcAfter == <<"BODY_PARSED", "VALIDATED", "PROMPT_BUILT", "INVOKED", "PARSED", "DONE">>

HandlerLinear ==
    entry = "handler"
    => /\ Len(steps) <= Len(HandlerOrder)
       /\ steps = SubSeq(HandlerOrder, 1, Len(steps))
       /\ pc \notin {"FAILED", "CRASHED"}
          => pc = IF Len(steps) = 0 THEN "INIT" ELSE PcAfter[Len(steps)]
       /\ pc \in {"FAILED", "CRASHED"} => Len(steps) >= 1 /\ result.kind \in {"return", "raise"}
       /\ invoke_calls = IF Len(steps) >= 4 THEN 1 ELSE 0
       /\ retrieve_calls = 0 /\ topics = <<>>
       /\ backend_exc # "" => pc = "FAILED" /\ Len(steps) = 4

\* C10: a call of handler runs its steps in the one order INIT, VALIDATED,
\* PROMPT_BUILT, INVOKED, PARSED, DONE; it calls invoke_model at most once,
\* never retrieve or the topic extraction; and once a step has failed (or the
\* call is done) no further step runs.
C10_LinearAndFailedAbsorbing ==
    /\ []HandlerLinear
    /\ [][(entry = "handler" /\ pc \in {"FAILED", "CRASHED", "DONE"}) => UNCHANGED vars]_vars
    /\ [][(entry = "handler" /\ pc' # pc)
          => /\ Len(steps') = Len(steps) + 1
             /\ pc' \in {PcAfter[Len(steps')], "FAILED", "CRASHED"}]_vars

C10_Witness ==
    /\ entry = "handler" /\ pc = "FAILED" /\ backend_exc = "ClientError"
    /\ steps = SubSeq(HandlerOrder, 1, 4) /\ invoke_calls = 1

====
